---- MODULE Spec2Model ----
(***************************************************************************)
(* File transfer with metadata: the client (src/client.py) frames a file   *)
(* as  totalSize | metadata | payload | digest  and waits for the digest   *)
(* to be echoed; the server (src/server.py) reassembles the frame from a   *)
(* byte stream, verifies the digest, stores the payload and echoes the     *)
(* digest.                                                                 *)
(*                                                                         *)
(* A plain byte is a number 0..255.  A byte of a SHAKE-128 output is kept  *)
(* symbolic: it is the number 256 * r + (i - 1), where r is the position   *)
(* of the hashed input in the table of all inputs hashed so far (hashed)   *)
(* and i the position of the byte in the output.  Two digest bytes are     *)
(* equal exactly when they are the same position of the output for the     *)
(* same input (the hash treated as collision-free), and the output of      *)
(* length n is a prefix of the output of length m > n, as for any          *)
(* extendable-output function.  When the code reads a digest byte as a     *)
(* number (a frame whose fields were shifted), its value is the parameter  *)
(* o, which the actions draw from SymVals.                                 *)
(***************************************************************************)
EXTENDS Integers, Sequences, FiniteSets, TLC

\* ------------------------------------------------------------------ bounds

\* send_file calls per connection
MaxFiles == 2
\* successive client connections
MaxConns == 2
\* the client's hash_length ranges over 0..MaxHashLen
MaxHashLen == 2
\* file contents have 0..MaxPayload bytes
MaxPayload == 1

\* ------------------------------------------------------------ byte strings

Min(a, b) == IF a < b THEN a ELSE b
Max(a, b) == IF a > b THEN a ELSE b

\* a byte of a digest, as opposed to a plain byte 0..255
IsSym(b) == b > 255

\* the numeric value of a byte; o stands for the value of a digest byte
Num(b, o) == IF IsSym(b) THEN o ELSE b

\* Python's index normalisation for slices: negative counts from the end,
\* both clamped to 0..n (0-based bound)
PyIdx(i, n) == IF i < 0 THEN Max(n + i, 0) ELSE Min(i, n)

\* s[lo:hi] with Python's semantics (0-based, hi exclusive)
PySlice(s, lo, hi) ==
    LET a == PyIdx(lo, Len(s))
        b == PyIdx(hi, Len(s))
    IN  IF a >= b THEN <<>> ELSE SubSeq(s, a + 1, b)

\* s[lo:]
PySliceFrom(s, lo) == PySlice(s, lo, Len(s))

\* s[:hi]
PySliceTo(s, hi) == PySlice(s, 0, hi)

\* struct.pack("!B"/"!H"/"!I", n): big-endian, fixed width
PackB(n) == <<n % 256>>

\* the name length packed as "I" (four bytes) instead of "H"
PackHAsInt(n) == <<0, 0, n \div 256, n % 256>>

PackH(n) == <<(n \div 256) % 256, n % 256>>
PackI(n) == <<(n \div 16777216) % 256, (n \div 65536) % 256, (n \div 256) % 256, n % 256>>

\* struct.unpack of the same formats; the caller checks the length
UnpackH(s, o) == Num(s[1], o) * 256 + Num(s[2], o)
\* values from 2^31 on are kept as 2^31 - 1: every buffer here is far shorter,
\* and the value is only compared with lengths
UnpackI(s, o) ==
    IF Num(s[1], o) >= 128 THEN 2147483647
    ELSE Num(s[1], o) * 16777216 + Num(s[2], o) * 65536 + Num(s[3], o) * 256 + Num(s[4], o)

\* ------------------------------------------------------------------- UTF-8

\* str.encode("utf-8") of one code point
Utf8Char(c) ==
    IF c < 128 THEN <<c>>
    ELSE IF c < 2048 THEN <<192 + (c \div 64), 128 + (c % 64)>>
    ELSE IF c < 65536 THEN <<224 + (c \div 4096), 128 + ((c \div 64) % 64), 128 + (c % 64)>>
    ELSE <<240 + (c \div 262144), 128 + ((c \div 4096) % 64),
           128 + ((c \div 64) % 64), 128 + (c % 64)>>

RECURSIVE Utf8Encode(_)
Utf8Encode(str) ==
    IF str = <<>> THEN <<>> ELSE Utf8Char(Head(str)) \o Utf8Encode(Tail(str))

IsCont(b) == b >= 128 /\ b <= 191

\* bytes.decode("utf-8"), strict: [ok |-> FALSE] is UnicodeDecodeError
RECURSIVE Utf8DecodeFrom(_, _, _)
Utf8DecodeFrom(s, i, acc) ==
    IF i > Len(s) THEN [ok |-> TRUE, str |-> acc]
    ELSE LET b0 == s[i]
             has(k) == i + k <= Len(s)
             c(k) == s[i + k]
         IN  IF b0 < 128 THEN Utf8DecodeFrom(s, i + 1, Append(acc, b0))
             ELSE IF b0 >= 194 /\ b0 <= 223 THEN
                 IF has(1) /\ IsCont(c(1))
                 THEN Utf8DecodeFrom(s, i + 2, Append(acc, (b0 - 192) * 64 + (c(1) - 128)))
                 ELSE [ok |-> FALSE, str |-> <<>>]
             ELSE IF b0 >= 224 /\ b0 <= 239 THEN
                 IF /\ has(2) /\ IsCont(c(1)) /\ IsCont(c(2))
                    /\ (b0 = 224 => c(1) >= 160)
                    /\ (b0 = 237 => c(1) <= 159)
                 THEN Utf8DecodeFrom(s, i + 3,
                          Append(acc, (b0 - 224) * 4096 + (c(1) - 128) * 64 + (c(2) - 128)))
                 ELSE [ok |-> FALSE, str |-> <<>>]
             ELSE IF b0 >= 240 /\ b0 <= 244 THEN
                 IF /\ has(3) /\ IsCont(c(1)) /\ IsCont(c(2)) /\ IsCont(c(3))
                    /\ (b0 = 240 => c(1) >= 144)
                    /\ (b0 = 244 => c(1) <= 143)
                 THEN Utf8DecodeFrom(s, i + 4,
                          Append(acc, (b0 - 240) * 262144 + (c(1) - 128) * 4096
                                      + (c(2) - 128) * 64 + (c(3) - 128)))
                 ELSE [ok |-> FALSE, str |-> <<>>]
             ELSE [ok |-> FALSE, str |-> <<>>]

Utf8Decode(s, o) == Utf8DecodeFrom([i \in 1..Len(s) |-> Num(s[i], o)], 1, <<>>)

\* ------------------------------------------------------------------ digest

\* the table of hashed inputs with data entered
Register(table, data) ==
    IF \E r \in 1..Len(table) : table[r] = data THEN table ELSE Append(table, data)

\* hashlib.shake_128(data).digest(n), for data in the table
ShakeDigest(table, data, n) ==
    LET r == CHOOSE q \in 1..Len(table) : table[q] = data
    IN  [k \in 1..n |-> 256 * r + (k - 1)]

\* ---------------------------------------------------------- client: encode

\* code points used in paths
Slash == 47
Dot == 46

RECURSIVE LastIndexOf(_, _, _)
\* str.rfind(c) over the first n characters, 1-based; 0 when absent
LastIndexOf(str, c, n) ==
    IF n = 0 THEN 0 ELSE IF str[n] = c THEN n ELSE LastIndexOf(str, c, n - 1)

\* os.path.basename(filepath)
Basename(filepath) ==
    SubSeq(filepath, LastIndexOf(filepath, Slash, Len(filepath)) + 1, Len(filepath))

\* os.path.splitext(filename)[1].replace(".", ""): the extension starts at the
\* last dot, unless only dots precede it
FileExtension(filename) ==
    LET d == LastIndexOf(filename, Dot, Len(filename))
    IN  IF d = 0 \/ \A k \in 1..(d - 1) : filename[k] = Dot
        THEN <<>>
        ELSE SubSeq(filename, d + 1, Len(filename))

\* the pack(...) call of encode_metadata
PackMetadata(filename, file_extension, created_date, file_size, hash_length) ==
    LET filename_bytes == Utf8Encode(filename)
        file_extension_bytes == Utf8Encode(file_extension)
        created_date_bytes == Utf8Encode(created_date)
    IN  PackH(Len(filename_bytes)) \o PackB(Len(file_extension_bytes))
        \o PackB(Len(created_date_bytes))
        \o filename_bytes \o file_extension_bytes \o created_date_bytes
        \o PackI(file_size) \o PackB(hash_length)

\* encode_metadata(filepath), given what the file system reports for the path
EncodeMetadata(filepath, created_date, file_size, hash_length) ==
    PackMetadata(Basename(filepath), FileExtension(Basename(filepath)),
                 created_date, file_size, hash_length)

\* compute_hash(data) of the client
ClientHash(table, data, hash_length) == ShakeDigest(Register(table, data), data, hash_length)

\* the data packet send_file builds from the metadata, the bytes it read and
\* the hash of the two
DataPacket(metadata, file_data, hash) ==
    LET total_data_size == Len(metadata) + Len(file_data) + Len(hash)
    IN  PackI(total_data_size) \o metadata \o file_data \o hash

\* ---------------------------------------------------------- server: decode

\* calcsize("!HBB")
metadata_size == 4

UnpackFailed ==
    [ok |-> FALSE, filename |-> <<>>, file_extension |-> <<>>, created |-> <<>>,
     file_size |-> 0, hash_length |-> 0, file_data |-> <<>>]

\* unpack_metadata(data); ok = FALSE when it raises (struct.error for a slice
\* of the wrong length, UnicodeDecodeError)
UnpackMetadata(data, o) ==
    LET head == PySliceTo(data, metadata_size)
    IN  IF Len(head) # metadata_size THEN UnpackFailed
        ELSE
        LET filename_length == UnpackH(head, o)
            file_extension_length == Num(head[3], o)
            created_length == Num(head[4], o)
            p1 == metadata_size + filename_length
            p2 == p1 + file_extension_length
            p3 == p2 + created_length
            filename == Utf8Decode(PySlice(data, metadata_size, p1), o)
            file_extension == Utf8Decode(PySlice(data, p1, p2), o)
            created == Utf8Decode(PySlice(data, p2, p3), o)
            tail == PySlice(data, p3, p3 + 5)
        IN  IF ~filename.ok \/ ~file_extension.ok \/ ~created.ok \/ Len(tail) # 5
            THEN UnpackFailed
            ELSE
            LET hash_length == Num(tail[5], o)
            IN  [ok |-> TRUE,
                 filename |-> filename.str,
                 file_extension |-> file_extension.str,
                 created |-> created.str,
                 file_size |-> UnpackI(tail, o),
                 hash_length |-> hash_length,
                 file_data |-> PySlice(data, p3 + 5, -hash_length)]

\* values a digest byte can have when it is read as a number
SymVals == {0, 2, 200}

\* the values to try for the digest bytes of data: they matter only when a
\* digest byte lies in the part unpack_metadata reads as numbers or text
Oracles(data) ==
    LET head == PySliceTo(data, metadata_size)
        span == IF Len(head) < metadata_size \/ \E k \in 1..Len(head) : IsSym(head[k])
                THEN Len(data)
                ELSE metadata_size + UnpackH(head, 0)
                     + head[3] + head[4] + 5
    IN  IF Len(head) < metadata_size THEN {0}
        ELSE IF \E k \in 1..Min(span, Len(data)) : IsSym(data[k]) THEN SymVals ELSE {0}

\* received_data[-hash_length:] in run
ReceivedHash(received_data, hash_length) == PySliceFrom(received_data, -hash_length)

\* received_data[:-hash_length] in run
CombinedData(received_data, hash_length) == PySliceTo(received_data, -hash_length)

\* compute_hash(data, hash_length) of the server
ComputeHash(table, data, hash_length) ==
    ShakeDigest(Register(table, data), data, hash_length)

\* ------------------------------------------------------------------ inputs

\* the paths a client is given: "s/a", "e.b" with e = U+00E9, and "t/a",
\* which has the file name of the first
FileSeq == <<<<115, 47, 97>>, <<233, 46, 98>>, <<116, 47, 97>>>>

Paths == {FileSeq[k] : k \in 1..Len(FileSeq)}

\* the lists of paths a client sends, one after the other: MaxFiles paths
\* of FileSeq, from any of its paths on, cyclically
FileList(first) == [k \in 1..MaxFiles |-> FileSeq[((first + k - 2) % Len(FileSeq)) + 1]]

FileLists == {FileList(first) : first \in 1..Len(FileSeq)}

\* file contents: the first n bytes of a pattern that differs between the
\* paths (3, 200, 3, ... for "s/a"); the files have the same length
PatternByte(path, k) == IF k % 2 = 1 THEN path[1] % 7 ELSE 200

Content(path, n) == [k \in 1..n |-> PatternByte(path, k)]

\* time.ctime(os.path.getctime(filepath)), shortened: "T" or "Tu"
Created(path) == IF path[1] < 128 THEN <<84>> ELSE <<84, 117>>

\* values a corrupted byte of the stream can take
TamperVals == {0, 1, 200}

\* ------------------------------------------------------------------- state

VARIABLES
    \* client (src/client.py)
    hash_length,     \* self.hash_length
    fs,              \* the sender's files: path -> content
    files,           \* the paths the client sends, in this order
    cpc,             \* where the client is: "new", "ready", "wait_ack", "raised"
    hash_value,      \* digest the running send_file computed
    results,         \* return values of the send_file calls of this connection
    nconn,           \* connections attempted so far
    \* transport
    c2s,             \* bytes written by the client, not yet read by the server
    s2c,             \* bytes written by the server, not yet read by the client
    cliOpen,         \* the client's socket is connected and not closed
    srvOpen,         \* the server's side of the connection is not closed
    pending,         \* a connection waits in the listen queue
    \* server (src/server.py)
    is_running,      \* self.is_running
    server_socket,   \* "listening" or "closed"
    spc,             \* where run is: "accept", "recv_size", "recv_body", "handle",
                     \* "send_ack", "stopped"
    data_size,       \* receive_data: declared size
    received_data,   \* receive_data: bytes accumulated / returned
    computed_hash,   \* run: digest to send back
    storage,         \* received_files: set of [name, data], one per name
    \* history of the connection
    sent,            \* per completed sendall: path, metadata and payload framed
    returned,        \* last return of receive_data: "init", "none" or "bytes"
    nrecv,           \* receive_data calls that returned
    consumed,        \* bytes read from the stream by the running receive_data
    handled,         \* per frame run went through: the frame and what was done
    hashed,          \* the inputs hashed so far, in the order of their first use
    tampered,        \* a byte of the stream was corrupted
    cut              \* the connection broke in the middle of a frame

cvars == <<hash_length, fs, files, cpc, hash_value, results, nconn>>
tvars == <<c2s, s2c, cliOpen, srvOpen, pending>>
svars == <<is_running, server_socket, spc, data_size, received_data, computed_hash, storage>>
hvars == <<sent, returned, nrecv, consumed, handled, hashed, tampered, cut>>
vars == <<cvars, tvars, svars, hvars>>

\* the state with the server's socket and position as given, everything else
\* as the constructors and the first lines of the methods leave it
InitWith(sock, pc) ==
    /\ hash_length \in 0..MaxHashLen
    /\ \E n \in 0..MaxPayload : fs = [q \in Paths |-> Content(q, n)]
    /\ files \in FileLists
    /\ cpc = "new"
    /\ hash_value = <<>>
    /\ results = <<>>
    /\ nconn = 0
    /\ c2s = <<>>
    /\ s2c = <<>>
    /\ cliOpen = FALSE
    /\ srvOpen = FALSE
    /\ pending = FALSE
    /\ is_running = TRUE
    /\ server_socket = sock
    /\ spc = pc
    /\ data_size = 0
    /\ received_data = <<>>
    /\ computed_hash = <<>>
    /\ storage = {}
    /\ sent = <<>>
    /\ returned = "init"
    /\ nrecv = 0
    /\ consumed = 0
    /\ handled = <<>>
    /\ hashed = <<>>
    /\ tampered = FALSE
    /\ cut = FALSE

\* both programs constructed, the server started and in run
Init == InitWith("listening", "accept")

\* both programs constructed, nothing started: server_socket is None
InitLife == InitWith("none", "new")

\* ------------------------------------------------------------------ server

\* the bufsize a recv call may return: at least one byte, at most the request
\* and what has arrived
RecvSizes(bufsize, stream) == 1..Min(bufsize, Len(stream))

Take(stream, k) == SubSeq(stream, 1, k)
Drop(stream, k) == SubSeq(stream, k + 1, Len(stream))

\* the ceiling of one body read in receive_data
BufferCap == 4096

\* chunk_size without the min against what is left of the frame
ChunkSizeWholeBuffer(size, got) == BufferCap

\* chunk_size that forgets what has been received already
ChunkSizeOfWhole(size, got) == Min(BufferCap, size)

\* chunk_size in the receive loop
ChunkSize(size, got) == Min(BufferCap, size - Len(got))

\* the file system following one component of a path from where it is: the
\* empty component and "." stay, ".." goes to the parent directory, which for
\* received_files is the working directory of the server
Follow(at, comp) ==
    IF comp = <<>> \/ comp = <<Dot>> THEN at
    ELSE IF comp # <<Dot, Dot>> THEN [at EXCEPT !.comps = Append(@, comp)]
    ELSE IF at.comps # <<>>
         THEN [at EXCEPT !.comps = SubSeq(@, 1, Len(@) - 1)]
    ELSE IF at.root = "received_files" THEN [at EXCEPT !.root = "cwd"]
    ELSE IF at.root = "cwd" THEN [at EXCEPT !.root = "above"]
    ELSE at

RECURSIVE FollowFrom(_, _, _, _)
FollowFrom(path, k, comp, at) ==
    IF k > Len(path) THEN Follow(at, comp)
    ELSE IF path[k] = Slash THEN FollowFrom(path, k + 1, <<>>, Follow(at, comp))
    ELSE FollowFrom(path, k + 1, Append(comp, path[k]), at)

\* the file open(os.path.join("received_files", filename), "wb") names: join
\* drops "received_files" when filename is absolute, and the file system
\* follows the components of what is left
WrittenFile(filename) ==
    FollowFrom(filename, 1, <<>>,
               [root |-> IF filename # <<>> /\ filename[1] = Slash
                         THEN "/" ELSE "received_files",
                comps |-> <<>>])

\* open(os.path.join("received_files", filename), "wb") raises for these
\* names: the path names a directory, or it holds a NUL
WriteFileRaises(filename) ==
    \/ WrittenFile(filename).comps = <<>>
    \/ filename[Len(filename)] = Slash
    \/ \E k \in 1..Len(filename) : filename[k] = 0

\* whether write_file completes: never for a name open() refuses, and for any
\* other name it completes or raises OSError (the storage fails)
WriteOutcomes(filename) == IF WriteFileRaises(filename) THEN {FALSE} ELSE {TRUE, FALSE}

\* write_file that returns without having written anything
WriteFileNothing(store, filename, data) == store

\* write_file that creates no file when there is nothing to write
WriteFileSkipEmpty(store, filename, data) ==
    IF data = <<>> THEN store
    ELSE {r \in store : WrittenFile(r.name) # WrittenFile(filename)}
            \cup {[name |-> filename, data |-> data]}

\* write_file(filename, data): the file the path names is created or
\* overwritten; store holds each file under the name it was last written by
WriteFile(store, filename, data) ==
    {r \in store : WrittenFile(r.name) # WrittenFile(filename)}
       \cup {[name |-> filename, data |-> data]}

\* the fields of the server that shutdown() reads and writes
ServerObj == [socket |-> server_socket, is_running |-> is_running, raised |-> FALSE]

\* shutdown() without "if self.server_socket": None.close() raises
ServerShutdownUnguarded(obj) ==
    IF obj.raised THEN obj
    ELSE IF obj.socket = "none" THEN [obj EXCEPT !.raised = TRUE]
    ELSE [obj EXCEPT !.socket = "closed", !.is_running = FALSE]

\* shutdown() of the server: close() if server_socket is set, which a closed
\* socket accepts too, then is_running = False; a call that follows one that
\* raised is never made
ServerShutdown(obj) ==
    IF obj.raised THEN obj
    ELSE [obj EXCEPT !.socket = IF @ = "none" THEN "none" ELSE "closed",
                     !.is_running = FALSE]

\* the server as shutdown() left it, run returning and the process ending,
\* which closes the connection, unless shutdown() raised
StopWith(obj) ==
    /\ is_running' = obj.is_running
    /\ server_socket' = obj.socket
    /\ spc' = IF obj.raised THEN "raised" ELSE "stopped"
    /\ srvOpen' = FALSE
    /\ pending' = FALSE

\* shutdown() followed by run returning
Stop == StopWith(ServerShutdown(ServerObj))

\* shutdown() in the except branch of receive_data, then shutdown() again in
\* run, which returns
StopTwice == StopWith(ServerShutdown(ServerShutdown(ServerObj)))

\* start() and, when it returns True, run(): the socket is created, bound and
\* listening and run enters its loop, which it leaves at once when is_running
\* is already False; or bind raises OSError and start returns False
SrvStart ==
    /\ spc = "new"
    /\ \/ /\ server_socket' = "listening"
          /\ spc' = IF is_running THEN "accept" ELSE "stopped"
       \/ /\ server_socket' = "unbound"
          /\ spc' = "stopped"
    /\ UNCHANGED <<cvars, tvars, is_running, data_size, received_data, computed_hash,
                   storage, hvars>>

\* shutdown() called by the program that owns the server while run is not
\* executing: before start, or after run has returned
SrvShutdown ==
    /\ spc \in {"new", "stopped"}
    /\ LET obj == ServerShutdown(ServerObj)
       IN  /\ is_running' = obj.is_running
           /\ server_socket' = obj.socket
           /\ spc' = IF obj.raised THEN "raised" ELSE spc
    /\ pending' = FALSE
    /\ UNCHANGED <<cvars, c2s, s2c, cliOpen, srvOpen, data_size, received_data,
                   computed_hash, storage, hvars>>

\* run: server_socket.accept()
SrvAccept ==
    /\ spc = "accept" /\ is_running /\ pending
    /\ pending' = FALSE
    /\ spc' = "recv_size"
    /\ nrecv' = 0
    /\ consumed' = 0
    /\ UNCHANGED <<cvars, c2s, s2c, cliOpen, srvOpen, is_running, server_socket,
                   data_size, received_data, computed_hash, storage,
                   sent, returned, handled, hashed, tampered, cut>>

\* receive_data returns None and run shuts the server down
ReturnNone ==
    /\ returned' = "none"
    /\ nrecv' = nrecv + 1
    /\ Stop

\* receive_data raises, shuts the server down in its except branch and
\* returns None, and run shuts the server down again
RaiseNone ==
    /\ returned' = "none"
    /\ nrecv' = nrecv + 1
    /\ StopTwice

\* receive_data: data_size_bytes = client_socket.recv(4) and the unpack of it
SrvRecvSize ==
    /\ spc = "recv_size"
    /\ \/ /\ c2s # <<>>
          /\ \E k \in RecvSizes(4, c2s) :
                /\ c2s' = Drop(c2s, k)
                /\ consumed' = k
                /\ IF k = 4
                   THEN /\ \E o \in (IF \E j \in 1..4 : IsSym(c2s[j]) THEN SymVals ELSE {0}) :
                              data_size' = UnpackI(Take(c2s, 4), o)
                        /\ received_data' = <<>>
                        /\ spc' = "recv_body"
                        /\ UNCHANGED <<returned, nrecv, is_running, server_socket,
                                       srvOpen, pending>>
                   ELSE \* struct.error: the except branch, then "if not received_data"
                        /\ RaiseNone
                        /\ UNCHANGED <<data_size, received_data>>
       \/ /\ c2s = <<>> /\ ~cliOpen
          /\ ReturnNone
          /\ UNCHANGED <<c2s, consumed, data_size, received_data>>
    /\ UNCHANGED <<cvars, s2c, cliOpen, computed_hash, storage, sent, handled, hashed,
                   tampered, cut>>

\* the lengths tried for a chunk of the body: one byte, and everything the
\* request allows; a read of a length in between reaches the state that the
\* same number of one-byte reads reaches
ChunkLens(bufsize, stream) == {1, Min(bufsize, Len(stream))}

\* receive_data: one pass of the loop that has a chunk to append
SrvRecvChunk ==
    /\ spc = "recv_body"
    /\ Len(received_data) < data_size
    /\ c2s # <<>>
    /\ \E k \in ChunkLens(ChunkSize(data_size, received_data), c2s) :
          /\ received_data' = received_data \o Take(c2s, k)
          /\ c2s' = Drop(c2s, k)
          /\ consumed' = consumed + k
    /\ UNCHANGED <<cvars, s2c, cliOpen, srvOpen, pending, is_running, server_socket, spc,
                   data_size, computed_hash, storage,
                   sent, returned, nrecv, handled, hashed, tampered, cut>>

\* receive_data: the loop ends (everything received, or an empty chunk) and
\* received_data is returned
SrvRecvReturn ==
    /\ spc = "recv_body"
    /\ \/ Len(received_data) >= data_size
       \/ c2s = <<>> /\ ~cliOpen
    /\ spc' = "handle"
    /\ returned' = "bytes"
    /\ nrecv' = nrecv + 1
    /\ UNCHANGED <<cvars, tvars, is_running, server_socket, data_size, received_data,
                   computed_hash, storage, sent, consumed, handled, hashed, tampered, cut>>

\* the comparison that accepts every frame
VerifiedAlways(computed, received_hash) == TRUE

\* the comparison that looks at the lengths of the digests only
VerifiedByLength(computed, received_hash) == Len(computed) = Len(received_hash)

\* run: if computed_hash == received_hash
Verified(computed, received_hash) == computed = received_hash

\* an entry of the history of handled frames
Handled(frame, did, filename, data) ==
    [frame |-> frame, did |-> did, name |-> filename, data |-> data, ack |-> <<>>]

\* run: from "if not received_data" to write_file, or to the mismatch branch
SrvHandle ==
    /\ spc = "handle"
    /\ IF received_data = <<>>
       THEN /\ Stop
            /\ UNCHANGED <<storage, computed_hash, handled, hashed, consumed>>
       ELSE \E o \in Oracles(received_data) :
            LET u == UnpackMetadata(received_data, o)
                received_hash == ReceivedHash(received_data, u.hash_length)
                combined_data == CombinedData(received_data, u.hash_length)
                computed == ComputeHash(hashed, combined_data, u.hash_length)
            IN  IF ~u.ok
                THEN \* struct.error or UnicodeDecodeError
                     /\ Stop
                     /\ handled' = Append(handled, Handled(received_data, "error", <<>>, <<>>))
                     /\ UNCHANGED <<storage, computed_hash, hashed, consumed>>
                ELSE
                /\ hashed' = Register(hashed, combined_data)
                /\ IF Verified(computed, received_hash)
                   THEN \E completes \in WriteOutcomes(u.filename) :
                        IF ~completes
                        THEN /\ Stop
                             /\ handled' = Append(handled,
                                    Handled(received_data, "write_failed", <<>>, <<>>))
                             /\ UNCHANGED <<storage, computed_hash, consumed>>
                        ELSE /\ storage' = WriteFile(storage, u.filename, u.file_data)
                             /\ handled' = Append(handled,
                                    Handled(received_data, "stored", u.filename, u.file_data))
                             /\ computed_hash' = computed
                             /\ spc' = "send_ack"
                             /\ UNCHANGED <<is_running, server_socket, srvOpen, pending,
                                            consumed>>
                   ELSE /\ handled' = Append(handled,
                               Handled(received_data, "rejected", <<>>, <<>>))
                        /\ spc' = "recv_size"
                        /\ consumed' = 0
                        /\ UNCHANGED <<is_running, server_socket, srvOpen, pending,
                                       storage, computed_hash>>
    /\ UNCHANGED <<cvars, c2s, s2c, cliOpen, data_size, received_data,
                   sent, returned, nrecv, tampered, cut>>

\* the history entry of the frame being acknowledged
Acked(h, bytes) == [h EXCEPT ![Len(h)].did = "acked", ![Len(h)].ack = bytes]

\* run: client_socket.sendall(computed_hash)
SrvSendAck ==
    /\ spc = "send_ack"
    /\ \/ /\ cliOpen
          /\ s2c' = s2c \o computed_hash
          /\ handled' = Acked(handled, computed_hash)
          /\ spc' = "recv_size"
          /\ consumed' = 0
          /\ UNCHANGED <<is_running, server_socket, srvOpen, pending>>
       \/ \* the peer is gone: the write is lost ...
          /\ ~cliOpen
          /\ handled' = Acked(handled, computed_hash)
          /\ spc' = "recv_size"
          /\ consumed' = 0
          /\ UNCHANGED <<s2c, is_running, server_socket, srvOpen, pending>>
       \/ \* ... or sendall raises and the except branch shuts down
          /\ ~cliOpen
          /\ Stop
          /\ UNCHANGED <<s2c, handled, consumed>>
    /\ UNCHANGED <<cvars, c2s, cliOpen, data_size, received_data, computed_hash, storage,
                   sent, returned, nrecv, hashed, tampered, cut>>

\* ------------------------------------------------------------------ client

\* start(): connect to the listening server, or fail when nothing listens.
\* Connections come one after another: the next client starts once the
\* server is back in accept or has stopped.
CliStart ==
    /\ cpc = "new" /\ nconn < MaxConns
    /\ spc \in {"accept", "stopped"} /\ ~pending
    /\ nconn' = nconn + 1
    /\ IF server_socket = "listening"
       THEN /\ pending' = TRUE
            /\ cliOpen' = TRUE
            /\ srvOpen' = TRUE
            /\ cpc' = "ready"
            /\ results' = <<>>
            /\ c2s' = <<>>
            /\ s2c' = <<>>
            /\ sent' = <<>>
            /\ handled' = <<>>
            /\ returned' = "init"
            /\ tampered' = FALSE
            /\ cut' = FALSE
       ELSE \* connection refused: start returns False
            UNCHANGED <<tvars, cpc, results, sent, handled, returned, tampered, cut>>
    /\ UNCHANGED <<hash_length, fs, files, hash_value, svars, nrecv, consumed, hashed>>

\* what send_file frames for a path: encode_metadata with the size the file
\* system reports, then the bytes read_file returns
Framed(path) ==
    [path |-> path,
     metadata |-> EncodeMetadata(path, Created(path), Len(fs[path]), hash_length),
     payload |-> fs[path]]

\* the digest send_file computes for a framed file
HashOf(table, f) == ClientHash(table, f.metadata \o f.payload, hash_length)

\* the data packet of a framed file
PacketOf(table, f) == DataPacket(f.metadata, f.payload, HashOf(table, f))

\* send_file returns server_hash == hash_value
SendFileReturns(server_hash, hash) == server_hash = hash

\* send_file from compute_hash to its recv, for the metadata and the bytes
\* it has put in f: compute_hash, sendall(data_packet); with hash_length 0
\* the recv(0) that follows returns b"" at once and send_file returns
SendFramed(f) ==
    /\ LET packet == PacketOf(hashed, f)
           done == /\ hash_value' = HashOf(hashed, f)
                   /\ IF hash_length = 0
                      THEN /\ results' = Append(results,
                                  SendFileReturns(<<>>, HashOf(hashed, f)))
                           /\ cpc' = "ready"
                      ELSE /\ cpc' = "wait_ack"
                           /\ UNCHANGED results
       IN  /\ hashed' = Register(hashed, f.metadata \o f.payload)
           /\ \/ \* sendall completes
                 /\ srvOpen
                 /\ c2s' = c2s \o packet
                 /\ sent' = Append(sent, f)
                 /\ done
                 /\ UNCHANGED <<cliOpen, cut>>
              \/ \* the connection breaks during sendall: a proper prefix went out
                 /\ srvOpen /\ ~tampered
                 /\ \E k \in 1..(Len(packet) - 1) : c2s' = c2s \o Take(packet, k)
                 /\ cliOpen' = FALSE
                 /\ cut' = TRUE
                 /\ cpc' = "raised"
                 /\ UNCHANGED <<sent, hash_value, results>>
              \/ \* the server is gone: sendall raises ...
                 /\ ~srvOpen
                 /\ cliOpen' = FALSE
                 /\ cpc' = "raised"
                 /\ UNCHANGED <<c2s, sent, cut, hash_value, results>>
              \/ \* ... or the bytes are accepted by the local stack and lost
                 /\ ~srvOpen
                 /\ sent' = Append(sent, f)
                 /\ done
                 /\ UNCHANGED <<c2s, cliOpen, cut>>
    /\ UNCHANGED <<hash_length, files, nconn, s2c, srvOpen, pending, svars,
                   returned, nrecv, consumed, handled, tampered>>

\* send_file up to its recv, the file staying as it is between
\* encode_metadata and read_file
CliSend ==
    /\ cpc = "ready" /\ Len(results) < Len(files)
    /\ ~pending
    /\ SendFramed(Framed(files[Len(results) + 1]))
    /\ UNCHANGED fs

\* send_file up to its recv, another process rewriting the file after
\* encode_metadata took its size and before read_file reads it
CliSendRaced ==
    /\ cpc = "ready" /\ Len(results) < Len(files)
    /\ ~pending
    /\ LET path == files[Len(results) + 1]
       IN  \E n \in 0..MaxPayload :
              /\ n # Len(fs[path])
              /\ fs' = [fs EXCEPT ![path] = Content(path, n)]
              /\ SendFramed([Framed(path) EXCEPT !.payload = Content(path, n)])

\* names a sender that is not this client can put in the name field, for a
\* file of the list: "./a", "../a" and "/a" for "s/a"
PeerNames(path) ==
    LET base == Basename(path)
    IN  {<<Dot, Slash>> \o base, <<Dot, Dot, Slash>> \o base, <<Slash>> \o base}

\* the connection is used by another program than client.py: it frames a
\* file as send_file does, with a name field of its choice
PeerSend ==
    /\ cpc = "ready" /\ Len(results) < Len(files)
    /\ ~pending
    /\ LET path == files[Len(results) + 1]
       IN  \E name \in PeerNames(path) :
              SendFramed([path |-> path,
                          metadata |-> PackMetadata(name, FileExtension(Basename(path)),
                                                    Created(path), Len(fs[path]),
                                                    hash_length),
                          payload |-> fs[path]])
    /\ UNCHANGED fs

\* send_file: server_hash = recv(self.hash_length), compare, return
CliRecvAck ==
    /\ cpc = "wait_ack"
    /\ \/ /\ s2c # <<>>
          /\ \E k \in RecvSizes(hash_length, s2c) :
                /\ results' = Append(results, SendFileReturns(Take(s2c, k), hash_value))
                /\ s2c' = Drop(s2c, k)
          /\ cpc' = "ready"
          /\ UNCHANGED cliOpen
       \/ \* end of stream: recv returns b""
          /\ s2c = <<>> /\ ~srvOpen
          /\ results' = Append(results, SendFileReturns(<<>>, hash_value))
          /\ cpc' = "ready"
          /\ UNCHANGED <<s2c, cliOpen>>
       \/ \* the server went away with unread data: ConnectionResetError
          /\ s2c = <<>> /\ ~srvOpen
          /\ cliOpen' = FALSE
          /\ cpc' = "raised"
          /\ UNCHANGED <<s2c, results>>
    /\ UNCHANGED <<hash_length, fs, files, hash_value, nconn, c2s, srvOpen, pending,
                   svars, hvars>>

\* shutdown(): the client closes its socket
CliShutdown ==
    /\ cpc = "ready"
    /\ cliOpen' = FALSE
    /\ cpc' = "new"
    /\ UNCHANGED <<hash_length, fs, files, hash_value, results, nconn,
                   c2s, s2c, srvOpen, pending, svars, hvars>>

\* the fields of the client that shutdown() reads and writes
ClientObj ==
    [socket |-> IF cliOpen THEN "connected" ELSE IF nconn = 0 THEN "none" ELSE "closed",
     is_running |-> cpc \in {"ready", "wait_ack"},
     raised |-> FALSE]

\* shutdown() of the client: close() if client_socket is set, then
\* is_running = False
ClientShutdown(obj) ==
    [obj EXCEPT !.socket = IF @ = "none" THEN "none" ELSE "closed",
                !.is_running = FALSE]

\* shutdown() called on a client that is not connected: before start, after
\* an earlier shutdown, or after send_file raised
CliShutdownAgain ==
    /\ cpc \in {"new", "raised"}
    /\ LET obj == ClientShutdown(ClientObj)
       IN  /\ cliOpen' = (obj.socket = "connected")
           /\ cpc' = IF obj.raised THEN "raised" ELSE "new"
    /\ UNCHANGED <<hash_length, fs, files, hash_value, results, nconn,
                   c2s, s2c, srvOpen, pending, svars, hvars>>

\* ------------------------------------------------------------- environment

\* the bytes of the stream up to the end of the frame at its head, as far as
\* they have been written
HeadFrame(stream) ==
    IF Len(stream) < 4 THEN Len(stream)
    ELSE Min(Len(stream), 4 + UnpackI(Take(stream, 4), 0))

\* one byte of the frame at the head of the stream is corrupted before the
\* server starts to read it; a connection suffers one fault at most
Tamper ==
    /\ ~tampered /\ ~cut /\ c2s # <<>>
    /\ spc = "recv_size"
    /\ \E pos \in 1..HeadFrame(c2s), val \in TamperVals :
          /\ c2s[pos] # val
          /\ c2s' = [c2s EXCEPT ![pos] = val]
    /\ tampered' = TRUE
    /\ UNCHANGED <<cvars, s2c, cliOpen, srvOpen, pending, svars,
                   sent, returned, nrecv, consumed, handled, hashed, cut>>

\* ---------------------------------------------------------- specification

Next ==
    \/ SrvAccept
    \/ SrvRecvSize
    \/ SrvRecvChunk
    \/ SrvRecvReturn
    \/ SrvHandle
    \/ SrvSendAck
    \/ CliStart
    \/ CliSend
    \/ CliRecvAck
    \/ CliShutdown
    \/ Tamper

Spec == Init /\ [][Next]_vars

\* the same with other processes that modify the files being sent
NextRaced ==
    \/ SrvAccept
    \/ SrvRecvSize
    \/ SrvRecvChunk
    \/ SrvRecvReturn
    \/ SrvHandle
    \/ SrvSendAck
    \/ CliStart
    \/ CliSend
    \/ CliSendRaced
    \/ CliRecvAck
    \/ CliShutdown
    \/ Tamper

RaceSpec == Init /\ [][NextRaced]_vars

\* the server with any program at the other end of its connections
NextOpen ==
    \/ SrvAccept
    \/ SrvRecvSize
    \/ SrvRecvChunk
    \/ SrvRecvReturn
    \/ SrvHandle
    \/ SrvSendAck
    \/ CliStart
    \/ CliSend
    \/ PeerSend
    \/ CliRecvAck
    \/ CliShutdown

OpenSpec == Init /\ [][NextOpen]_vars

\* the two programs from their construction on, shutdown() being called at
\* any point of their lives
NextLife ==
    \/ SrvStart
    \/ SrvShutdown
    \/ SrvAccept
    \/ SrvRecvSize
    \/ SrvRecvChunk
    \/ SrvRecvReturn
    \/ SrvHandle
    \/ SrvSendAck
    \/ CliStart
    \/ CliSend
    \/ CliRecvAck
    \/ CliShutdown
    \/ CliShutdownAgain

LifeSpec == InitLife /\ [][NextLife]_vars

\* ------------------------------------------------------------------ claims

\* the bytes that follow the totalSize prefix in the packet of a framed file
BodyOf(f) == f.metadata \o f.payload \o HashOf(hashed, f)

\* the digest split of run, applied to the result of unpack_metadata
DigestSplit(data, o) == ReceivedHash(data, UnpackMetadata(data, o).hash_length)

\* the connection saw no fault: no corrupted byte, no break inside a frame
Honest == ~tampered /\ ~cut

\* C1 (as claimed): for every frame body the client builds, with digestLength
\* in 0..255, unpack_metadata and the digest split give back the name, the
\* extension, the creation time, the size, the digest length and the payload
\* that went in, and the digest Hash(metadata||payload, digestLength).
C1_RoundTrip ==
    \A k \in 1..Len(sent) :
        LET f == sent[k]
            u == UnpackMetadata(BodyOf(f), 0)
        IN  /\ u.ok
            /\ u.filename = Basename(f.path)
            /\ u.file_extension = FileExtension(Basename(f.path))
            /\ u.created = Created(f.path)
            /\ u.file_size = Len(f.payload)
            /\ u.hash_length = hash_length
            /\ u.file_data = f.payload
            /\ DigestSplit(BodyOf(f), 0) = HashOf(hashed, f)

\* the frame the last return of receive_data belongs to was sent whole
ReturnedForSentFrame ==
    /\ spc \in {"handle", "send_ack", "stopped"}
    /\ returned # "init"
    /\ nrecv >= 1 /\ nrecv <= Len(sent)

C3_NoPartialFrameDownstream ==
    (spc = "handle" /\ received_data # <<>>) => Len(received_data) = data_size

RECURSIVE StreamFrom(_)
\* the packets of the frames sent from the k-th on, as they follow each other
\* on the stream
StreamFrom(k) ==
    IF k > Len(sent) THEN <<>> ELSE PacketOf(hashed, sent[k]) \o StreamFrom(k + 1)

\* C4: receive_data never consumes more than the prefix and the declared
\* totalSize bytes for a frame; on a connection without faults the stream is
\* therefore at the start of the next sent frame whenever the server turns to
\* the next prefix, and what the server holds of the current frame and what is
\* left on the stream make up the frames sent.
C4_NoOverRead ==
    /\ consumed - 4 <= (IF spc \in {"accept", "recv_size"} THEN 0 ELSE data_size)
    /\ spc \in {"recv_body", "handle", "send_ack"} => Len(received_data) <= data_size
    /\ (Honest /\ spc = "recv_size") => c2s = StreamFrom(nrecv + 1)
    /\ (Honest /\ spc = "recv_body")
          => PackI(data_size) \o received_data \o c2s = StreamFrom(nrecv + 1)

\* C4 witness: a whole frame has been received while bytes of the next frame
\* wait on the stream.
C4_Witness ==
    /\ Honest /\ spc = "handle"
    /\ Len(received_data) = data_size /\ data_size > 0
    /\ c2s # <<>>
\* the last n bytes of a frame, and the bytes before them
FrameDigest(frame, n) == SubSeq(frame, Len(frame) - n + 1, Len(frame))
FrameContent(frame, n) == SubSeq(frame, 1, Len(frame) - n)

\* the frame carries digestLength n and its last n bytes are the digest of
\* the bytes before them, and name and payload are the ones its metadata
\* delimits
VerifiesAs(frame, n, digest, o) ==
    LET u == UnpackMetadata(frame, o)
    IN  /\ u.ok /\ u.hash_length = n /\ n <= Len(frame)
        /\ FrameDigest(frame, n) = digest
        /\ ComputeHash(hashed', FrameContent(frame, n), n) = digest

\* C5: the server writes to storage and goes on to acknowledge only for a
\* frame whose last digestLength bytes equal the digest recomputed over the
\* bytes before them, and the only bytes it ever writes to the connection are
\* that recomputed digest; a frame whose digests differ changes neither the
\* storage nor the connection.
C5_VerificationGates ==
    [][ /\ (storage' # storage \/ (spc = "handle" /\ spc' = "send_ack"))
            => /\ spc = "handle"
               /\ \E o \in Oracles(received_data) :
                     /\ VerifiesAs(received_data, Len(computed_hash'), computed_hash', o)
                     /\ storage' = WriteFile(storage,
                                       UnpackMetadata(received_data, o).filename,
                                       UnpackMetadata(received_data, o).file_data)
        /\ (Len(s2c') > Len(s2c))
            => /\ spc = "send_ack"
               /\ s2c' = s2c \o computed_hash
               /\ \E o \in Oracles(received_data) :
                     VerifiesAs(received_data, Len(computed_hash), computed_hash, o)
      ]_vars

\* C5 witness: a frame was persisted and acknowledged, and a frame whose
\* digests differ was handled on the same connection.
C5_Witness ==
    /\ \E k \in 1..Len(handled) : handled[k].did = "acked" /\ handled[k].ack # <<>>
    /\ \E k \in 1..Len(handled) : handled[k].did = "rejected"
    /\ storage # {} /\ s2c # <<>>

\* C6: with a collision-free hash, every frame the server persists or
\* acknowledges is, byte for byte, the body of a frame the sender hashed and
\* sent; a frame that differs from it in a metadata or payload byte (a length
\* field and the digestLength field included) is never persisted and never
\* acknowledged.
C6_TamperDetection ==
    /\ \A k \in 1..Len(handled) :
          handled[k].did \in {"stored", "acked"}
             => \E j \in 1..Len(sent) :
                   /\ handled[k].frame = BodyOf(sent[j])
                   /\ handled[k].name = Basename(sent[j].path)
                   /\ handled[k].data = sent[j].payload
    /\ \A r \in storage :
          \E p \in Paths : r.name = Basename(p) /\ r.data = fs[p]

\* C6 witness: a byte of a frame was changed in transit and the server
\* rejected the frame it then received.
C6_Witness ==
    /\ tampered /\ hash_length > 0
    /\ \E k \in 1..Len(handled) :
          /\ handled[k].did = "rejected"
          /\ \E j \in 1..Len(sent) :
                /\ Len(handled[k].frame) = Len(BodyOf(sent[j]))
                /\ handled[k].frame # BodyOf(sent[j])
                /\ FrameDigest(handled[k].frame, hash_length) = HashOf(hashed, sent[j])

\* the file of a framed file as the server stores it
StoredAs(f) == [name |-> Basename(f.path), data |-> f.payload]

\* the server is through with the first frame of the connection
FirstFrameServed == nrecv >= 1 /\ spc \in {"recv_size", "stopped"}

\* C7 (as claimed): on a connection without faults, however the transport
\* fragments the stream, once the first send_file has returned and the server
\* is through with the frame, the file is stored under the sent name with the
\* sent payload, the acknowledgment written back is the digestLength-byte
\* digest of metadata||payload, and send_file has returned True.
C7_EndToEndSuccess ==
    (Honest /\ Len(sent) = 1 /\ Len(results) = 1 /\ FirstFrameServed)
        => /\ results[1] = TRUE
           /\ StoredAs(sent[1]) \in storage
           /\ handled # <<>>
           /\ handled[1].did = "acked"
           /\ handled[1].ack = HashOf(hashed, sent[1])

\* C8 (as claimed): send_file returns True only when the bytes it read as
\* acknowledgment are the digest it computed, and at that moment the server
\* has stored, under the name carried in the frame, the payload of the frame.
C8_ClientSuccessSound ==
    [][ (Len(results') = Len(results) + 1 /\ results'[Len(results')])
            => LET f == sent'[Len(results')]
               IN  /\ SubSeq(s2c, 1, Len(s2c) - Len(s2c')) = HashOf(hashed', f)
                   /\ StoredAs(f) \in storage'
      ]_vars

\* a step of the server, or the return of the client's recv
Progress ==
    \/ SrvAccept \/ SrvRecvSize \/ SrvRecvChunk \/ SrvRecvReturn
    \/ SrvHandle \/ SrvSendAck
    \/ CliRecvAck

\* the server rejected the last frame it received, wrote nothing back, and
\* waits for the next prefix
RejectedAndSilent ==
    /\ handled # <<>> /\ handled[Len(handled)].did = "rejected"
    /\ spc = "recv_size" /\ c2s = <<>> /\ s2c = <<>>

\* C9 (as claimed): a send_file that waits for the acknowledgment of a frame
\* the server rejected is not left waiting: with no acknowledgment on the
\* way, its read still returns (and the call ends with False), or the server
\* still has a step to take for it.
C9_AttemptGetsOutcome ==
    (cpc = "wait_ack" /\ RejectedAndSilent) => ENABLED Progress

\* C10 (as claimed): once a client has connected and disconnected, between
\* frames or inside one, the server is still running and its listening socket
\* is open for the next connection.
C10_ServerOutlivesConnections ==
    (nconn >= 1 /\ ~cliOpen /\ ~tampered) => (is_running /\ server_socket = "listening")

\* handling the connection hit an error while the peer was still connected:
\* an exception in run (a frame that does not unpack, a storage failure), an
\* exception inside receive_data, or a frame with declared totalSize 0
ErrorOnConnection ==
    \/ \E k \in 1..Len(handled) : handled[k].did \in {"error", "write_failed"}
    \/ cliOpen /\ nrecv >= 1 /\ returned = "none"
    \/ cliOpen /\ returned = "bytes" /\ received_data = <<>> /\ spc = "stopped"

\* C11 (as claimed): an error while handling a connection sends no
\* acknowledgment for the frame and does not stop the listening process:
\* is_running stays true and the listening socket stays open.
C11_ErrorsContained ==
    /\ \A k \in 1..Len(handled) :
          handled[k].did \in {"error", "write_failed"} => handled[k].ack = <<>>
    /\ ErrorOnConnection => (is_running /\ server_socket = "listening")

\* the lengths a buffer of at least 4 bytes declares for name, extension and
\* creation time, added up
DeclaredStrings(data, o) ==
    UnpackH(SubSeq(data, 1, 2), o) + Num(data[3], o) + Num(data[4], o)

\* a length field of the buffer points past its end, or the buffer is
\* shorter than metadataLen + size + digestLength
Inconsistent(data, o) ==
    /\ Len(data) >= 4
    /\ LET metadataLen == 4 + DeclaredStrings(data, o) + 5
       IN  \/ metadataLen - 5 > Len(data)
           \/ /\ metadataLen <= Len(data)
              /\ LET size == UnpackI(SubSeq(data, metadataLen - 4, metadataLen - 1), o)
                     digestLength == Num(data[metadataLen], o)
                 IN  Len(data) - metadataLen - digestLength < size

\* C12 (as claimed): for every buffer handed to it in which a declared
\* length reads past the end, or which is shorter than metadataLen + size +
\* digestLength, unpack_metadata fails instead of returning metadata and
\* payload.
C12_RejectsInconsistentFrames ==
    (spc = "handle" /\ received_data # <<>>)
        => \A o \in Oracles(received_data) :
              Inconsistent(received_data, o) => ~UnpackMetadata(received_data, o).ok

\* the frame is, byte for byte, the body of a frame the client sent
SentFrame(frame) == \E j \in 1..Len(sent) : frame = BodyOf(sent[j])

\* C13 (as claimed): after rejecting a frame for a digest mismatch, and until
\* its next receive_data returns, the server stays on the connection waiting
\* for a frame, and a valid frame that it receives next on that connection is
\* verified, persisted and acknowledged.
C13_RejectionKeepsConnection ==
    /\ (handled # <<>> /\ handled[Len(handled)].did = "rejected" /\ nrecv = Len(handled))
          => (is_running /\ srvOpen /\ spc \in {"recv_size", "recv_body"})
    /\ \A k \in 2..Len(handled) :
          (handled[k - 1].did = "rejected" /\ SentFrame(handled[k].frame))
             => handled[k].did \in {"stored", "acked"}

\* C14 (as claimed): when the acknowledgment read of send_file returns with
\* bytes (the transport did not close), it has collected exactly digestLength
\* bytes, however the transport fragments the server's write, so that no byte
\* of this acknowledgment is left in the stream for the next frame.
C14_AckExactRead ==
    [][ (cpc = "wait_ack" /\ Len(results') = Len(results) + 1 /\ s2c # <<>>)
            => /\ Len(s2c) - Len(s2c') = hash_length
               /\ Honest => s2c' = <<>>
      ]_vars

\* the frame the client builds for a file of size 0
EmptyFileFrame(f) == f.payload = <<>>

\* C15: with digestLength >= 1, the frame of an empty file carries size 0, no
\* payload byte and a digest of digestLength bytes; when the server has
\* received it, it unpacks it to an empty payload, verifies it, stores an
\* empty file under the sent name (unless the storage write itself fails) and
\* acknowledges with the digest: the frame is neither rejected nor taken for a
\* closed connection or a malformed frame.
C15_ZeroLengthPayload ==
    hash_length >= 1 =>
      \A j \in 1..Len(sent) :
        EmptyFileFrame(sent[j]) =>
          LET digest == HashOf(hashed, sent[j])
              body == sent[j].metadata \o digest
              u == UnpackMetadata(body, 0)
          IN  /\ Len(digest) = hash_length
              /\ body = BodyOf(sent[j])
              /\ u.ok /\ u.file_size = 0 /\ u.file_data = <<>>
              /\ \A k \in 1..Len(handled) :
                    handled[k].frame = body
                      => /\ handled[k].did \in {"stored", "acked", "write_failed"}
                         /\ handled[k].did \in {"stored", "acked"}
                               => /\ handled[k].name = Basename(sent[j].path)
                                  /\ handled[k].data = <<>>
                                  /\ [name |-> Basename(sent[j].path), data |-> <<>>]
                                        \in storage
                         /\ handled[k].did = "acked" => handled[k].ack = digest

\* C15 witness: the frame of an empty file was stored as an empty file and
\* acknowledged with a digest of digestLength >= 1 bytes.
C15_Witness ==
    /\ hash_length >= 1
    /\ \E k \in 1..Len(handled), j \in 1..Len(sent) :
          /\ EmptyFileFrame(sent[j])
          /\ handled[k].frame = BodyOf(sent[j])
          /\ handled[k].did = "acked"
          /\ Len(handled[k].ack) = hash_length
          /\ [name |-> handled[k].name, data |-> <<>>] \in storage
          /\ s2c # <<>>

\* C16 (as claimed): the bytes send_file writes for a frame are a totalSize
\* prefix that counts the bytes after it, the metadata (whose last byte
\* declares digestLength), the payload, and a digest of digestLength bytes
\* taken over metadata||payload; and what the server hashes for a frame it
\* unpacked is the received bytes without their last digestLength bytes.
C16_LengthPrefix ==
    [][ /\ (Len(sent') = Len(sent) + 1 /\ srvOpen)
            => LET f == sent'[Len(sent')]
                   digest == ComputeHash(hashed, f.metadata \o f.payload, hash_length)
                   rest == f.metadata \o f.payload \o digest
               IN  /\ c2s' = c2s \o PackI(Len(rest)) \o rest
                   /\ Len(digest) = hash_length
                   /\ f.metadata[Len(f.metadata)] = hash_length
                   /\ hashed' = Register(hashed, f.metadata \o f.payload)
        /\ (spc = "handle" /\ Len(handled') = Len(handled) + 1
               /\ handled'[Len(handled')].did # "error")
            => \E o \in Oracles(received_data) :
                  hashed' = Register(hashed,
                     FrameContent(received_data, UnpackMetadata(received_data, o).hash_length))
      ]_vars

\* the bytes of the text fields of the metadata of a path: name, extension
\* and creation time in UTF-8
StringBytes(path) ==
    Len(Utf8Encode(Basename(path)))
    + Len(Utf8Encode(FileExtension(Basename(path))))
    + Len(Utf8Encode(Created(path)))

\* a step in which sendall writes a whole frame writes 4 + (header + strings
\* + 4 + 1) + payload + digestLength bytes, header being the bytes of the
\* three length fields
WritesFrameOf(header) ==
    (Len(sent') = Len(sent) + 1 /\ srvOpen)
        => LET f == sent'[Len(sent')]
           IN  Len(c2s') - Len(c2s)
                 = 4 + (header + StringBytes(f.path) + 4 + 1)
                     + Len(f.payload) + hash_length

\* C17 (as claimed): the bytes send_file writes for one file number
\* 4 + (8 + nameLen + extLen + createdLen + 4 + 1) + size + digestLength.
C17_FrameLengthClaimed == [][WritesFrameOf(8)]_vars

\* C17 (amended): the bytes send_file writes for one file number
\* 4 + (4 + nameLen + extLen + createdLen + 4 + 1) + size + digestLength,
\* size being the number of payload bytes in the frame: the three length
\* fields take 2 + 1 + 1 bytes.
C17_FrameLength == [][WritesFrameOf(4)]_vars

\* C17 witness: a frame was written for the path with a two-byte character
\* in its name and an extension, with a payload and a digest.
C17_Witness ==
    /\ hash_length >= 1 /\ c2s # <<>>
    /\ \E k \in 1..Len(sent) :
          /\ sent[k].path = FileSeq[2]
          /\ sent[k].payload # <<>>
          /\ Len(PacketOf(hashed, sent[k])) = 4 + 16 + Len(sent[k].payload) + hash_length

\* the frames of the connection the server has answered: acknowledged,
\* rejected, or ended with an error
Answered == {k \in 1..Len(handled) : handled[k].did # "stored"}

\* C18 (as claimed): on a connection without faults that the server still
\* serves, at most one frame is sent and not yet answered, so that the server
\* never has bytes of two frames pending at once.
C18_SingleInFlight ==
    (Honest /\ srvOpen) => Len(sent) - Cardinality(Answered) <= 1

\* C19: whenever the server writes acknowledgment bytes to the connection,
\* the frame being acknowledged has been written to storage in an earlier
\* step and storage holds its payload under its name; a frame whose storage
\* write failed is never acknowledged, and nothing is written to the
\* connection in the step in which the write fails or after it.
C19_PersistBeforeAck ==
    [][ /\ Len(s2c') > Len(s2c)
            => /\ handled # <<>>
               /\ handled[Len(handled)].did = "stored"
               /\ handled[Len(handled)].frame = received_data
               /\ [name |-> handled[Len(handled)].name,
                   data |-> handled[Len(handled)].data] \in storage
               /\ storage' = storage
        /\ \A k \in 1..Len(handled') :
              handled'[k].did = "write_failed"
                 => /\ handled'[k].ack = <<>>
                    /\ Len(s2c') <= Len(s2c)
      ]_vars

\* C19 witness: one frame was stored and then acknowledged, and the storage
\* write of a later frame of the connection failed.
C19_Witness ==
    /\ \E k \in 1..Len(handled) :
          /\ handled[k].did = "acked" /\ handled[k].ack # <<>>
          /\ \E m \in (k + 1)..Len(handled) : handled[m].did = "write_failed"
    /\ storage # {}

\* the value of the size field of the metadata of a frame
SizeField(metadata) == UnpackI(SubSeq(metadata, Len(metadata) - 4, Len(metadata) - 1), 0)

\* C20 (as claimed): in every frame send_file emits, also when other
\* processes modify the file between encode_metadata and read_file, the size
\* field equals the number of payload bytes placed in the frame.
C20_SizeMatchesPayload ==
    \A k \in 1..Len(sent) : SizeField(sent[k].metadata) = Len(sent[k].payload)

\* the size a frame body declares in its metadata
DeclaredSize(frame) ==
    LET metadataLen == 4 + DeclaredStrings(frame, 0) + 5
    IN  UnpackI(SubSeq(frame, metadataLen - 4, metadataLen - 1), 0)

\* C21 (as claimed): every payload the server unpacks and persists has
\* exactly the number of bytes the size field of its frame declares, the
\* digest being the digestLength bytes after it.
C21_PayloadDelimitedBySize ==
    \A k \in 1..Len(handled) :
        handled[k].did \in {"stored", "acked"}
           => /\ Len(handled[k].data) = DeclaredSize(handled[k].frame)
              /\ handled[k].frame
                    = FrameContent(handled[k].frame,
                                   Len(handled[k].frame) - 4
                                      - DeclaredStrings(handled[k].frame, 0) - 5
                                      - DeclaredSize(handled[k].frame))
                      \o FrameDigest(handled[k].frame, hash_length)

\* a read of receive_data can return: bytes have arrived or the peer closed
ReadCanReturn == c2s # <<>> \/ ~cliOpen

\* C22: receive_data terminates when every read eventually delivers a byte
\* or signals closure: a read that can return lets receive_data take a step,
\* every pass of the loop either makes the accumulated buffer strictly
\* longer, never beyond totalSize, or ends the loop, and the buffer returned
\* when the loop ends without a read having signalled closure has exactly
\* totalSize bytes.
C22_ExactReadTerminates ==
    [][ /\ (spc = "recv_size" /\ ReadCanReturn) => ENABLED SrvRecvSize
        /\ (spc = "recv_body" /\ (ReadCanReturn \/ Len(received_data) >= data_size))
              => ENABLED (SrvRecvChunk \/ SrvRecvReturn)
        /\ spc = "recv_body"
              => \/ UNCHANGED <<spc, received_data, data_size>>
                 \/ /\ spc' = "recv_body" /\ data_size' = data_size
                    /\ Len(received_data') > Len(received_data)
                    /\ Len(received_data') <= data_size
                    /\ SubSeq(received_data', 1, Len(received_data)) = received_data
                 \/ /\ spc' = "handle" /\ returned' = "bytes"
                    /\ received_data' = received_data /\ data_size' = data_size
                    /\ \/ Len(received_data) = data_size
                       \/ c2s = <<>> /\ ~cliOpen /\ Len(received_data) < data_size
      ]_vars

\* C22 witness: receive_data has returned a buffer of totalSize bytes that it
\* collected in more than one read, with the peer still connected.
C22_Witness ==
    /\ spc = "handle" /\ returned = "bytes" /\ cliOpen
    /\ Len(received_data) = data_size /\ data_size > 1
    /\ consumed = 4 + data_size
    /\ c2s # <<>>

\* the payload a frame body carries between its metadata and its digest
PayloadOf(frame) ==
    SubSeq(frame, 4 + DeclaredStrings(frame, 0) + 5 + 1, Len(frame) - hash_length)

\* the last acknowledged transfer of the history that carries the name
LastAcked(name) ==
    LET ks == {k \in 1..Len(handled) :
                  handled[k].did = "acked" /\ handled[k].name = name}
    IN  IF ks = {} THEN 0 ELSE CHOOSE k \in ks : \A j \in ks : j <= k

\* every transfer that was verified and written has been acknowledged
AllAcknowledged ==
    \A k \in 1..Len(handled) : handled[k].did \notin {"stored", "write_failed"}

\* once the transfers written so far are all acknowledged, the content
\* stored under each name is the payload of the most recent acknowledged frame
\* carrying that name, and nothing is stored under any other name
StoredIsLastAcked ==
    AllAcknowledged
       => /\ \A r \in storage :
                /\ LastAcked(r.name) # 0
                /\ r.data = PayloadOf(handled[LastAcked(r.name)].frame)
          /\ \A k \in 1..Len(handled) :
                handled[k].did = "acked"
                   => \E r \in storage : r.name = handled[k].name

\* C23 (as claimed): storage is keyed by name with overwrite. After every step the content
\* stored under each name is the payload of the most recent acknowledged
\* frame carrying that name; a step that handles a frame and changes the
\* storage stores that frame's payload under its name and leaves what is
\* stored under every other name as it was; and a step that rejects a frame
\* changes no stored file.
C23_StorageKeyedByName ==
    [][ /\ StoredIsLastAcked'
        /\ storage' # storage
           => /\ Len(handled') = Len(handled) + 1
              /\ LET h == handled'[Len(handled')]
                 IN  /\ h.did = "stored"
                     /\ [name |-> h.name, data |-> PayloadOf(h.frame)] \in storage'
                     /\ {r \in storage' : r.name # h.name}
                           = {r \in storage : r.name # h.name}
                     /\ \A r \in storage' : r.name = h.name => r.data = PayloadOf(h.frame)
        /\ (Len(handled') = Len(handled) + 1
               /\ handled'[Len(handled')].did = "rejected")
           => storage' = storage
      ]_vars

\* C24 (as claimed): every file the server has written for a verified frame
\* lies inside the received_files directory, whatever the name field held.
C24_StorageContained ==
    \A r \in storage : WrittenFile(r.name).root = "received_files"

\* what a call of the server's shutdown() leaves: it did not raise,
\* is_running is false and the socket, if one was created, is closed
ShutdownLeaves ==
    /\ spc' # "raised"
    /\ ~is_running'
    /\ server_socket' = IF server_socket = "none" THEN "none" ELSE "closed"

\* C25: shutdown is safe to repeat. Every call of the server's shutdown(),
\* before start, after run has returned, or inside run (once, or twice when
\* receive_data shut down on an exception and run shuts down again),
\* completes without raising and leaves is_running false and the socket, if
\* one was created, closed; a call on a server already shut down changes
\* nothing. The same holds of the client's shutdown().
C25_ShutdownRepeatable ==
    [][ /\ SrvShutdown
           => /\ ShutdownLeaves
              /\ (~is_running /\ server_socket \in {"none", "closed"})
                    => UNCHANGED <<svars, tvars>>
        /\ (spc \notin {"new", "stopped"} /\ spc' \in {"stopped", "raised"})
           => ShutdownLeaves
        /\ (CliShutdown \/ CliShutdownAgain)
           => /\ ~cliOpen' /\ cpc' = "new"
              /\ (cpc = "new" => UNCHANGED <<cvars, tvars>>)
      ]_vars

\* C25 witness: receive_data raised on a fragmented prefix and shut the server
\* down, run shut it down again and returned, and the owner of the server
\* can call shutdown() once more.
C25_Witness ==
    /\ spc = "stopped" /\ returned = "none" /\ consumed \in 1..3
    /\ ~is_running /\ server_socket = "closed"
    /\ ENABLED SrvShutdown

====
